---- MODULE Spec2Model ----
(***************************************************************************)
(* Model of src/app/api/form-validator/route.ts: the POST handler and the  *)
(* callAi retry loop.  One request is followed from the moment the         *)
(* framework hands it to POST until POST has answered.  The handler is     *)
(* split at its suspension points (await req.json(), await fetch(),        *)
(* await res.text(), await sleep()).                                       *)
(*                                                                         *)
(* Texts (response bodies, header values, error messages) are TLA+         *)
(* strings; the matching and parsing the code does on them is computed     *)
(* character by character.                                                 *)
(***************************************************************************)
EXTENDS Integers, Sequences, FiniteSets, TLC

VARIABLES
    pc,         \* where the handler is suspended: "json", "fetch", "text", "sleep", "done"
    body,       \* the request body as req.json() will deliver it
    env,        \* process.env: USE_MOCK_AI, GEMINI_API_KEY, GOOGLE_GEMINI_API_KEY
    attempt,    \* callAi: the loop variable
    timers,     \* the timer queue: the pending abort timers (line 26) of all requests
    elapsed,    \* callAi: ms since the fetch() of the attempt in flight was issued
    res,        \* callAi: the response whose body is being read / was read last
    calls,      \* number of fetch() calls issued to the endpoint
    outcomes,   \* history: how each attempt ended
    nsleeps,    \* history: number of sleep() calls
    waitMs,     \* callAi: the argument of the sleep() in progress / made last
    result,     \* how callAi ended: NoResult, a returned text or a thrown error
    responses,  \* the responses POST has returned
    cur,        \* the request whose handler the event loop runs (the variables
                \* above, env and timers excepted, are the locals of this request)
    others,     \* the locals of the other requests, suspended at an await
    page        \* the state of the page component (part_001) and the position
                \* of its handleSubmit

vars == <<pc, body, env, attempt, timers, elapsed, res, calls, outcomes, nsleeps, waitMs,
          result, responses, cur, others, page>>

----------------------------------------------------------------------------
(* Program constants *)

\* the model follows an attempt for at most MaxTicks steps of time
MaxTicks == 3

DEFAULT_TIMEOUT == 10000
\* a loop that allows one attempt more
MAX_RETRIES_Four == 3 + 1

MAX_RETRIES == 3
BASE_DELAY == 1000
JITTER_RANGE == 300

----------------------------------------------------------------------------
(* Strings *)

CharAt(s, i) == SubSeq(s, i, i)

\* String.prototype.includes
Includes(s, sub) ==
    \E i \in 0..(Len(s) - Len(sub)) : SubSeq(s, i + 1, i + Len(sub)) = sub

Digits == {"0", "1", "2", "3", "4", "5", "6", "7", "8", "9"}

DigitVal(c) ==
    CASE c = "0" -> 0 [] c = "1" -> 1 [] c = "2" -> 2 [] c = "3" -> 3
      [] c = "4" -> 4 [] c = "5" -> 5 [] c = "6" -> 6 [] c = "7" -> 7
      [] c = "8" -> 8 [] c = "9" -> 9

\* 2 ** n
RECURSIVE Pow2(_)
Pow2(n) == IF n = 0 THEN 1 ELSE 2 * Pow2(n - 1)

RECURSIVE Pow10(_)
Pow10(n) == IF n = 0 THEN 1 ELSE 10 * Pow10(n - 1)

\* Math.ceil(num / den), den > 0
CeilDiv(num, den) == -((-num) \div den)

\* length of the longest run of characters of cs that starts at position i of s
RECURSIVE RunLen(_, _, _)
RunLen(s, i, cs) ==
    IF i <= Len(s) /\ CharAt(s, i) \in cs THEN 1 + RunLen(s, i + 1, cs) ELSE 0

\* the decimal value of the n digits of s that start at position i
RECURSIVE DecVal(_, _, _)
DecVal(s, i, n) ==
    IF n = 0 THEN 0 ELSE 10 * DecVal(s, i, n - 1) + DigitVal(CharAt(s, i + n - 1))

\* A JavaScript number as the model needs it: NaN, or the fraction num / den
\* (den a power of ten).
NaN == [nan |-> TRUE, num |-> 0, den |-> 1]
Number(n, d) == [nan |-> FALSE, num |-> n, den |-> d]

WhiteSpace == {" ", "\t", "\n", "\r"}

\* parseInt(s, 10): leading white space, an optional sign, then the longest
\* run of digits; NaN when there is no digit.
ParseInt(s) ==
    LET i == 1 + RunLen(s, 1, WhiteSpace)
        signed == i <= Len(s) /\ CharAt(s, i) \in {"+", "-"}
        j == IF signed THEN i + 1 ELSE i
        n == RunLen(s, j, Digits)
        v == DecVal(s, j, n)
    IN  IF n = 0 THEN NaN
        ELSE IF signed /\ CharAt(s, i) = "-" THEN Number(-v, 1) ELSE Number(v, 1)

\* parseFloat(s) for s made of digits and dots (what ([0-9.]+) captures):
\* digits, then optionally a dot and digits; NaN when there is no digit.
ParseFloat(s) ==
    LET ip == RunLen(s, 1, Digits)
        dot == ip + 1 <= Len(s) /\ CharAt(s, ip + 1) = "."
        fp == IF dot THEN RunLen(s, ip + 2, Digits) ELSE 0
    IN  IF ip = 0 /\ fp = 0 THEN NaN
        ELSE Number(DecVal(s, 1, ip) * Pow10(fp) + DecVal(s, ip + 2, fp), Pow10(fp))

\* the /i flag, for the letters of the pattern below
LowerChar(c) ==
    CASE c = "R" -> "r" [] c = "E" -> "e" [] c = "T" -> "t" [] c = "Y" -> "y"
      [] c = "I" -> "i" [] c = "N" -> "n" [] c = "S" -> "s" [] OTHER -> c

RECURSIVE Lower(_)
Lower(s) == IF Len(s) = 0 THEN "" ELSE LowerChar(CharAt(s, 1)) \o Lower(SubSeq(s, 2, Len(s)))

NoMatch == [found |-> FALSE, group |-> ""]

\* /retry in ([0-9.]+)s/i matches s at position i
HintAt(s, i) ==
    LET n == RunLen(s, i + 9, Digits \cup {"."})
    IN  /\ i + 8 <= Len(s)
        /\ Lower(SubSeq(s, i, i + 8)) = "retry in "
        /\ n >= 1
        /\ i + 9 + n <= Len(s)
        /\ LowerChar(CharAt(s, i + 9 + n)) = "s"

\* text.match(/retry in ([0-9.]+)s/i): the leftmost match and its group 1
MatchRetryHint(s) ==
    LET ps == {i \in 1..Len(s) : HintAt(s, i)}
    IN  IF ps = {} THEN NoMatch
        ELSE LET i == CHOOSE p \in ps : \A q \in ps : p <= q
             IN  [found |-> TRUE,
                  group |-> SubSeq(s, i + 9, i + 8 + RunLen(s, i + 9, Digits \cup {"."}))]

----------------------------------------------------------------------------
(* JavaScript values: what req.json(), JSON.parse and process.env deliver *)

Undefined == [type |-> "undefined"]
Null == [type |-> "null"]
Str(s) == [type |-> "string", str |-> s]
Num(n) == [type |-> "number", num |-> n]
Bool(b) == [type |-> "boolean", bool |-> b]
Arr(items) == [type |-> "array", items |-> items]
Obj(members) == [type |-> "object", members |-> members]

Nullish(v) == v.type \in {"undefined", "null"}

\* ToBoolean(v) = false
Falsy(v) ==
    \/ Nullish(v)
    \/ v.type = "string" /\ v.str = ""
    \/ v.type = "number" /\ v.num = 0
    \/ v.type = "boolean" /\ ~v.bool

\* typeof v
TypeOf(v) ==
    CASE v.type = "undefined" -> "undefined"
      [] v.type = "string" -> "string"
      [] v.type = "number" -> "number"
      [] v.type = "boolean" -> "boolean"
      [] OTHER -> "object"

\* v?.k for a property name k
OptGet(v, k) ==
    IF Nullish(v) THEN Undefined
    ELSE IF v.type = "object" /\ k \in DOMAIN v.members THEN v.members[k]
    ELSE Undefined

\* v?.[0]
OptFirst(v) ==
    IF Nullish(v) THEN Undefined
    ELSE IF v.type = "array" /\ Len(v.items) >= 1 THEN v.items[1]
    ELSE IF v.type = "string" /\ Len(v.str) >= 1 THEN Str(CharAt(v.str, 1))
    ELSE IF v.type = "object" /\ "0" \in DOMAIN v.members THEN v.members["0"]
    ELSE Undefined

\* a ?? b
Coalesce(a, b) == IF Nullish(a) THEN b ELSE a

Error(name, message) == [name |-> name, message |-> message]

----------------------------------------------------------------------------
(* callAi: the decisions of the retry loop *)

\* res.ok with the lower bound excluded
IsOk_Above200(status) == status > 200 /\ status <= 299

\* res.ok
IsOk(status) == status >= 200 /\ status <= 299

\* line 49 without the test of the attempt number
RetriesStatus_Always(status, a) == status = 429 \/ status = 503

\* line 49: the statuses that are retried with a server-suggested wait
RetriesStatus(status, a) == (status = 429 \/ status = 503) /\ a < MAX_RETRIES

\* lines 50-61 with the header applied after the body hint
RetryWait_HeaderWins(a, retryAfter, text, jitter) ==
    LET backoff == BASE_DELAY * Pow2(a) + jitter
        secsMatch == MatchRetryHint(text)
        hint == IF secsMatch.found THEN ParseFloat(secsMatch.group) ELSE NaN
        afterHint == IF hint.nan THEN backoff ELSE CeilDiv(hint.num * 1000, hint.den)
        hdr == IF Falsy(retryAfter) THEN NaN ELSE ParseInt(retryAfter.str)
    IN  IF hdr.nan THEN afterHint ELSE hdr.num * 1000

\* lines 50-61: the wait before the next attempt after a 429 / 503.
\* retryAfter is res.headers.get("retry-after"), text the body, jitter the
\* value of Math.floor(Math.random() * 300).
RetryWait(a, retryAfter, text, jitter) ==
    LET backoff == BASE_DELAY * Pow2(a) + jitter
        hdr == IF Falsy(retryAfter) THEN NaN ELSE ParseInt(retryAfter.str)
        afterHeader == IF hdr.nan THEN backoff ELSE hdr.num * 1000
        secsMatch == MatchRetryHint(text)
        hint == IF secsMatch.found THEN ParseFloat(secsMatch.group) ELSE NaN
    IN  IF hint.nan THEN afterHeader ELSE CeilDiv(hint.num * 1000, hint.den)

\* line 67
ApiError(status, text) ==
    Error("Error", "AI API error " \o ToString(status) \o ": " \o text)

\* line 72 with 2 * attempt for 2 ** attempt
AbortWait_Times(a) == BASE_DELAY * 2 * a

\* line 72
AbortWait(a) == BASE_DELAY * Pow2(a)

FailureWait_Linear(a, jitter) == BASE_DELAY * (a + 1) + jitter

\* line 78
FailureWait(a, jitter) == BASE_DELAY * Pow2(a) + jitter

\* line 75
TimedOutError == Error("Error", "AI request timed out")

\* line 85
ExhaustedError == Error("Error", "AI request failed after retries")

----------------------------------------------------------------------------
(* POST: the decisions of the handler *)

\* line 93 without the typeof test
PromptInvalid_FalsyOnly(prompt) == Falsy(prompt)

\* line 93
PromptInvalid(prompt) == Falsy(prompt) \/ TypeOf(prompt) # "string"

\* lines 100-101 accepting "1" only
UseMock_OnlyOne(e) == e.USE_MOCK_AI = Str("1")

\* lines 100-101
UseMock(e) == e.USE_MOCK_AI = Str("1") \/ e.USE_MOCK_AI = Str("true")

\* line 112
ApiKey(e) == Coalesce(e.GEMINI_API_KEY, e.GOOGLE_GEMINI_API_KEY)

\* line 113 testing for null / undefined only
CredentialMissing_Nullish(e) == Nullish(ApiKey(e))

\* line 113
CredentialMissing(e) == Falsy(ApiKey(e))

\* NextResponse.json(json, { status })
Response(status, json) == [status |-> status, json |-> json]

\* lines 94-97
BadPromptResponse ==
    Response(400, Obj([error |-> Str("Missing or invalid 'prompt' in request body")]))

\* lines 104-109
MockResponse ==
    Response(200, Obj([validationRules |-> Arr(<<Str("email: required, must be a valid email")>>),
                       accessibility |-> Arr(<<Str("Ensure all form fields have associated labels")>>),
                       uxSuggestions |-> Arr(<<Str("Show inline validation messages as user types")>>),
                       edgeCases |-> Arr(<<Str("Empty optional fields with default values")>>)]))

\* line 115
MisconfiguredResponse == Response(500, Obj([error |-> Str("Server misconfiguration")]))

\* lines 151-160: the catch block of POST
ErrorResponse(error) ==
    IF Includes(error.message, "timed out")
    THEN Response(504, Obj([error |-> Str("AI request timed out")]))
    ELSE IF Includes(error.message, "AI API error")
    THEN Response(502, Obj([error |-> Str("AI API error"), details |-> Str(error.message)]))
    ELSE Response(500, Obj([error |-> Str("Server error")]))

----------------------------------------------------------------------------
(* POST: interpreting the text callAi returned (lines 135-150) *)

ReplyJson == "{\"validationRules\":[\"a\"]}"
ReplyInProse == "preamble {\"validationRules\":[\"a\"]} trailing"
ReplyNoBraces == "no json here"
ReplyTwoObjects == "{\"a\":1} and {\"b\":2}"
ReplyEmptyObject == "{}"
Envelope ==
    "{\"candidates\":[{\"content\":{\"parts\":[{\"text\":\"{\\\"validationRules\\\":[\\\"a\\\"]}\"}]}}]}"
EnvelopeNumber == "{\"candidates\":[{\"content\":{\"parts\":[{\"text\":5}]}}]}"
EnvelopeNull == "{\"candidates\":[{\"content\":{\"parts\":[{\"text\":null}]}}]}"
EnvelopeProse ==
    "{\"candidates\":[{\"content\":{\"parts\":[{\"text\":\"preamble {\\\"validationRules\\\":[\\\"a\\\"]} trailing\"}]}}]}"
ReplyReversed == "} no object {"

EnvelopeOf(textValue) ==
    Obj([candidates |-> Arr(<<Obj([content |-> Obj([parts |-> Arr(<<Obj([text |-> textValue])>>)])])>>)])

\* part_001 lines 6-17: the sample the page starts with
InitialFormInput ==
    "{\n  \"fields\": [\n    {\n      \"name\": \"email\",\n      \"type\": \"email\",\n      \"required\": true\n    },\n    {\n      \"name\": \"password\",\n      \"type\": \"password\",\n      \"required\": true\n    }\n  ]\n}"

JsonSyntaxError == [ok |-> FALSE, value |-> Undefined]
Parsed(v) == [ok |-> TRUE, value |-> v]

\* JSON.parse on the texts of the model; ok = FALSE when it throws
JsonParse(s) ==
    CASE s \in {"", ReplyInProse, ReplyNoBraces, ReplyTwoObjects, ReplyReversed} -> JsonSyntaxError
      [] s = ReplyJson -> Parsed(Obj([validationRules |-> Arr(<<Str("a")>>)]))
      [] s = ReplyEmptyObject -> Parsed(Obj(<<>>))
      [] s = Envelope -> Parsed(EnvelopeOf(Str(ReplyJson)))
      [] s = EnvelopeNumber -> Parsed(EnvelopeOf(Num(5)))
      [] s = EnvelopeNull -> Parsed(EnvelopeOf(Null))
      [] s = EnvelopeProse -> Parsed(EnvelopeOf(Str(ReplyInProse)))
      [] s = InitialFormInput ->
            Parsed(Obj([fields |-> Arr(<<
                Obj([name |-> Str("email"), type |-> Str("email"), required |-> Bool(TRUE)]),
                Obj([name |-> Str("password"), type |-> Str("password"),
                     required |-> Bool(TRUE)])>>)]))

\* lines 11-19: reply.match(/\{[\s\S]*\}/) is the text from the first "{" to
\* the last "}" after it; the result is the parsed value, or null
ExtractJsonFromReply(reply) ==
    LET opens == {i \in 1..Len(reply) : CharAt(reply, i) = "{"}
        first == CHOOSE i \in opens : \A k \in opens : i <= k
        closes == {j \in 1..Len(reply) : CharAt(reply, j) = "}" /\ j > first}
        last == CHOOSE j \in closes : \A k \in closes : k <= j
    IN  IF opens = {} \/ closes = {} THEN Null
        ELSE LET parsed == JsonParse(SubSeq(reply, first, last))
             IN  IF parsed.ok THEN parsed.value ELSE Null

ParsedReply_RawOnly(text) == Str(text)

\* lines 136-142
ParsedReply(text) ==
    LET apiJson == JsonParse(text)
    IN  IF apiJson.ok
        THEN Coalesce(OptGet(OptFirst(OptGet(OptGet(OptFirst(OptGet(apiJson.value,
                 "candidates")), "content"), "parts")), "text"), Str(text))
        ELSE Str(text)

\* lines 135-160 for the text callAi returned: the response of POST
InterpretResponse(text) ==
    LET parsedReply == ParsedReply(text)
    IN  IF parsedReply.type # "string"
        THEN ErrorResponse(Error("TypeError", "reply.match is not a function"))
        ELSE LET extracted == ExtractJsonFromReply(parsedReply.str)
             IN  IF Falsy(extracted)
                 THEN Response(500, Obj([error |-> Str("Invalid AI response format"),
                                         raw |-> parsedReply]))
                 ELSE Response(200, extracted)

----------------------------------------------------------------------------
(* Inputs *)

FormText == "{\"fields\":[]}"

BadJson(message) == [ok |-> FALSE, value |-> Undefined, error |-> Error("SyntaxError", message)]
Json(v) == [ok |-> TRUE, value |-> v, error |-> Error("", "")]

\* request bodies: what req.json() does with them
Bodies ==
    { BadJson("Unexpected end of JSON input"),
      BadJson("Unexpected token 'i', \"timed out\" is not valid JSON"),
      Json(Null), Json(Str("hello")), Json(Arr(<<>>)), Json(Obj(<<>>)),
      Json(Obj([prompt |-> Null])), Json(Obj([prompt |-> Num(5)])),
      Json(Obj([prompt |-> Arr(<<Str("a")>>)])),
      Json(Obj([prompt |-> Str("")])), Json(Obj([prompt |-> Str("0")])),
      Json(Obj([prompt |-> Str(FormText)])) }

Envs ==
    [USE_MOCK_AI : {Undefined, Str("1"), Str("true"), Str("0")},
     GEMINI_API_KEY : {Undefined, Str(""), Str("key-a")},
     GOOGLE_GEMINI_API_KEY : {Undefined, Str("key-b")}]

\* values of Math.floor(Math.random() * 300)
Jitters == {0, JITTER_RANGE - 1}

\* values of res.headers.get("retry-after")
RetryAfters ==
    {Null, Str(""), Str("2"), Str("1.5"), Str("-5"), Str("Wed, 21 Oct 2015 07:28:00 GMT")}

\* status line and retry-after header of the responses of the endpoint
Heads ==
    [status : {200, 299, 403}, retryAfter : {Null}]
        \cup [status : {429, 503}, retryAfter : RetryAfters]

OkTexts ==
    {ReplyJson, ReplyInProse, ReplyNoBraces, ReplyTwoObjects, ReplyReversed, ReplyEmptyObject,
     Envelope, EnvelopeNumber, EnvelopeNull, EnvelopeProse}

ErrorTexts ==
    {"", "Please retry in 5.5s.", "Retry in 0.0625s", "retry in .s", "upstream request timed out"}

\* errors fetch() and res.text() reject with, other than the abort
NetworkErrors == {Error("TypeError", "fetch failed")}

AbortError == Error("AbortError", "This operation was aborted")

----------------------------------------------------------------------------
(* State *)

NoRes == [status |-> 0, retryAfter |-> Undefined, text |-> Undefined]
NoResult == [kind |-> "none"]
Returned(text) == [kind |-> "returned", text |-> text]
Threw(error) == [kind |-> "threw", error |-> error]

Outcome(kind, status) == [kind |-> kind, status |-> status]

\* the timer line 26 sets for attempt a of request r
Timer(r, a) == [req |-> r, attempt |-> a]

Aborts_AnyController(t, r, a) == t \in timers

\* line 26: the callback of timer t aborts the controller it closes over,
\* the one of line 25 of the same iteration; r, a: the request and attempt
\* whose fetch() is rejected by it
Aborts(t, r, a) == t.req = r /\ t.attempt = a

\* time passes in steps of half the timeout
TickMs == DEFAULT_TIMEOUT \div 2

\* the time since the fetch() of the attempt of request r in flight
ElapsedOf(r) == IF r = cur THEN elapsed ELSE others[r].elapsed

\* setTimeout(..., DEFAULT_TIMEOUT): timer t may fire
TimerDue(t) == ElapsedOf(t.req) >= DEFAULT_TIMEOUT

\* part_001 lines 6-23 and the first run of the effect of lines 29-43: the
\* page after mounting; pc is the position of handleSubmit, sent the prompt
\* of the request in flight, res what its res.json() will do
Mounted ==
    [formInput |-> InitialFormInput, result |-> Null, loading |-> FALSE, error |-> "",
     jsonError |-> "", isValidJson |-> TRUE, pc |-> "idle", sent |-> "", res |-> Json(Undefined)]

Init ==
    /\ pc = "json"
    /\ body \in Bodies
    /\ env \in Envs
    /\ attempt = 0
    /\ timers = {}
    /\ elapsed = 0
    /\ res = NoRes
    /\ calls = 0
    /\ outcomes = <<>>
    /\ nsleeps = 0
    /\ waitMs = 0
    /\ result = NoResult
    /\ responses = <<>>
    /\ cur = 1
    /\ others = [r \in {} |-> NoResult]
    /\ page = Mounted

\* POST returns a response
Respond(response) ==
    /\ responses' = Append(responses, response)
    /\ pc' = "done"

\* lines 24-40: the loop test, and the body up to the await of fetch();
\* line 85 when the loop is left
EnterAttempt(a) ==
    /\ attempt' = a
    /\ res' = NoRes
    /\ waitMs' = 0
    /\ elapsed' = 0
    /\ IF a <= MAX_RETRIES
       THEN /\ timers' = timers \cup {Timer(cur, a)}
            /\ calls' = calls + 1
            /\ pc' = "fetch"
            /\ UNCHANGED <<result, responses>>
       ELSE /\ result' = Threw(ExhaustedError)
            /\ Respond(ErrorResponse(ExhaustedError))
            /\ UNCHANGED <<timers, calls>>

\* await sleep(ms); continue
Sleep(ms) ==
    /\ waitMs' = ms
    /\ nsleeps' = nsleeps + 1
    /\ elapsed' = 0
    /\ pc' = "sleep"
    /\ UNCHANGED <<result, responses>>

\* callAi throws error: the catch block of POST answers
Throw(error) ==
    /\ result' = Threw(error)
    /\ Respond(ErrorResponse(error))
    /\ elapsed' = 0
    /\ UNCHANGED <<waitMs, nsleeps>>

\* lines 68-82: the catch block of the attempt
Catch(error) ==
    /\ timers' = timers \ {Timer(cur, attempt)}
    /\ IF error.name = "AbortError"
       THEN IF attempt < MAX_RETRIES
            THEN Sleep(AbortWait(attempt))
            ELSE Throw(TimedOutError)
       ELSE IF attempt < MAX_RETRIES
            THEN \E jitter \in Jitters : Sleep(FailureWait(attempt, jitter))
            ELSE Throw(error)

----------------------------------------------------------------------------
(* Steps *)

\* req.json() settles; POST runs up to its first await inside callAi, or answers
JsonSettles ==
    /\ pc = "json"
    /\ UNCHANGED <<body, env, outcomes, nsleeps, cur, others, page>>
    /\ IF ~body.ok
       THEN /\ Respond(ErrorResponse(body.error))
            /\ UNCHANGED <<attempt, timers, elapsed, res, calls, waitMs, result>>
       ELSE IF PromptInvalid(OptGet(body.value, "prompt"))
       THEN /\ Respond(BadPromptResponse)
            /\ UNCHANGED <<attempt, timers, elapsed, res, calls, waitMs, result>>
       ELSE IF UseMock(env)
       THEN /\ Respond(MockResponse)
            /\ UNCHANGED <<attempt, timers, elapsed, res, calls, waitMs, result>>
       ELSE IF CredentialMissing(env)
       THEN /\ Respond(MisconfiguredResponse)
            /\ UNCHANGED <<attempt, timers, elapsed, res, calls, waitMs, result>>
       ELSE EnterAttempt(0)

\* fetch() resolves with the status line and headers of a response; line 42
FetchResponds ==
    /\ pc = "fetch"
    /\ \E head \in Heads :
          res' = [status |-> head.status, retryAfter |-> head.retryAfter, text |-> Undefined]
    /\ timers' = timers \ {Timer(cur, attempt)}
    /\ pc' = "text"
    /\ UNCHANGED <<body, env, attempt, elapsed, calls, outcomes, nsleeps, waitMs, result,
                   responses, cur, others, page>>

\* a timer of line 26 fires and its callback aborts the pending fetch(),
\* which rejects with an AbortError
FetchAborted ==
    /\ pc = "fetch"
    /\ \E t \in timers : TimerDue(t) /\ Aborts(t, cur, attempt)
    /\ outcomes' = Append(outcomes, Outcome("abort", 0))
    /\ Catch(AbortError)
    /\ UNCHANGED <<body, env, attempt, res, calls, cur, others, page>>

\* fetch() rejects with a network-level error
FetchFails ==
    /\ pc = "fetch"
    /\ outcomes' = Append(outcomes, Outcome("error", 0))
    /\ \E error \in NetworkErrors : Catch(error)
    /\ UNCHANGED <<body, env, attempt, res, calls, cur, others, page>>

\* res.text() resolves; lines 44-67, the catch block for the throw of line 67,
\* and for a 2xx the rest of POST
TextRead ==
    /\ pc = "text"
    /\ outcomes' = Append(outcomes, Outcome("http", res.status))
    /\ \E text \in IF IsOk(res.status) THEN OkTexts ELSE ErrorTexts :
          /\ res' = [res EXCEPT !.text = Str(text)]
          /\ IF IsOk(res.status)
             THEN /\ result' = Returned(text)
                  /\ Respond(InterpretResponse(text))
                  /\ elapsed' = 0
                  /\ UNCHANGED <<timers, waitMs, nsleeps>>
             ELSE IF RetriesStatus(res.status, attempt)
             THEN /\ \E jitter \in Jitters :
                        Sleep(RetryWait(attempt, res.retryAfter, text, jitter))
                  /\ UNCHANGED timers
             ELSE Catch(ApiError(res.status, text))
    /\ UNCHANGED <<body, env, attempt, calls, cur, others, page>>

\* res.text() rejects with a network-level error
TextFails ==
    /\ pc = "text"
    /\ outcomes' = Append(outcomes, Outcome("error", 0))
    /\ \E error \in NetworkErrors : Catch(error)
    /\ UNCHANGED <<body, env, attempt, res, calls, cur, others, page>>

\* the sleep ends; continue with the next attempt
SleepEnds ==
    /\ pc = "sleep"
    /\ EnterAttempt(attempt + 1)
    /\ UNCHANGED <<body, env, outcomes, nsleeps, cur, others, page>>

\* time passes while the attempt is in flight (await fetch(), await
\* res.text()); a pending timer fires when it is due, not later
Tick ==
    /\ pc \in {"fetch", "text"}
    /\ elapsed + TickMs <= MaxTicks * TickMs
    /\ Timer(cur, attempt) \in timers => elapsed + TickMs <= DEFAULT_TIMEOUT
    /\ elapsed' = elapsed + TickMs
    /\ UNCHANGED <<pc, body, env, attempt, timers, res, calls, outcomes, nsleeps, waitMs,
                   result, responses, cur, others, page>>

Next ==
    \/ JsonSettles
    \/ Tick
    \/ FetchResponds
    \/ FetchAborted
    \/ FetchFails
    \/ TextRead
    \/ TextFails
    \/ SleepEnds

Spec == Init /\ [][Next]_vars

----------------------------------------------------------------------------
(* Several requests: the event loop runs one handler at a time and switches
   between requests at the awaits (lines 28, 44, 63, 90) *)

Reqs == {1, 2}

\* the locals of the request the event loop runs
Locals ==
    [pc |-> pc, body |-> body, attempt |-> attempt, elapsed |-> elapsed, res |-> res,
     calls |-> calls, outcomes |-> outcomes, nsleeps |-> nsleeps, waitMs |-> waitMs,
     result |-> result, responses |-> responses]

\* the locals of a request that has arrived and whose handler has not run yet
Arrived(b) ==
    [pc |-> "json", body |-> b, attempt |-> 0, elapsed |-> 0, res |-> NoRes,
     calls |-> 0, outcomes |-> <<>>, nsleeps |-> 0, waitMs |-> 0,
     result |-> NoResult, responses |-> <<>>]

LocalOf(r) == IF r = cur THEN Locals ELSE others[r]

\* request r arrives with body b while another request is being handled
Arrive(r, b) ==
    /\ r \in Reqs \ ({cur} \cup DOMAIN others)
    /\ others' = [q \in DOMAIN others \cup {r} |-> IF q = r THEN Arrived(b) ELSE others[q]]
    /\ UNCHANGED <<pc, body, env, attempt, timers, elapsed, res, calls, outcomes, nsleeps,
                   waitMs, result, responses, cur, page>>

\* the handler of the running request is suspended at an await and the event
\* loop goes on with request r
Switch(r) ==
    /\ r \in DOMAIN others
    /\ others[r].pc # "done"
    /\ cur' = r
    /\ others' = [q \in (DOMAIN others \ {r}) \cup {cur} |-> LocalOf(q)]
    /\ pc' = others[r].pc
    /\ body' = others[r].body
    /\ attempt' = others[r].attempt
    /\ elapsed' = others[r].elapsed
    /\ res' = others[r].res
    /\ calls' = others[r].calls
    /\ outcomes' = others[r].outcomes
    /\ nsleeps' = others[r].nsleeps
    /\ waitMs' = others[r].waitMs
    /\ result' = others[r].result
    /\ responses' = others[r].responses
    /\ UNCHANGED <<env, timers, page>>

\* the endpoint of the several-request model: it answers 200 with a reply,
\* answers 429 with an empty body and no header, fails, or does not answer
ConcEndpoint ==
    /\ res.status \in {0, 200, 429}
    /\ res.retryAfter \in {Undefined, Null}
    /\ res.text \in {Undefined, Str(""), Str(ReplyJson)}
    /\ waitMs \in {0, 1000, 2000, 4000}

ConcInit ==
    /\ Init
    /\ body = Json(Obj([prompt |-> Str(FormText)]))
    /\ env = [USE_MOCK_AI |-> Undefined, GEMINI_API_KEY |-> Str("key-a"),
              GOOGLE_GEMINI_API_KEY |-> Undefined]

ConcNext ==
    \/ Next /\ ConcEndpoint'
    \/ \E r \in Reqs : Arrive(r, body)
    \/ \E r \in Reqs : Switch(r)

ConcSpec == ConcInit /\ [][ConcNext]_vars

----------------------------------------------------------------------------
(* The page component (part_001): its input, and handleSubmit *)

server == <<pc, body, env, attempt, timers, elapsed, res, calls, outcomes, nsleeps, waitMs,
            result, responses, cur, others>>

\* part_001 line 30: !formInput.trim()
Blank(s) == \A i \in 1..Len(s) : CharAt(s, i) \in WhiteSpace

\* part_001 line 40: the message of the SyntaxError JSON.parse throws for the
\* invalid input of the model
JsonErrorMessage == "Unexpected token 'o', \"no json here\" is not valid JSON"

\* part_001 lines 29-43: the effect that runs when formInput has changed
Validated(p) ==
    IF Blank(p.formInput)
    THEN [p EXCEPT !.isValidJson = FALSE, !.jsonError = "Empty input"]
    ELSE IF JsonParse(p.formInput).ok
    THEN [p EXCEPT !.isValidJson = TRUE, !.jsonError = ""]
    ELSE [p EXCEPT !.isValidJson = FALSE, !.jsonError = JsonErrorMessage]

\* JSON.stringify for the values of the model
JsonStringify(v) ==
    CASE v.type = "string" -> "\"" \o v.str \o "\""
      [] v.type = "number" -> ToString(v.num)
      [] v.type = "boolean" -> IF v.bool THEN "true" ELSE "false"
      [] v.type = "null" -> "null"
      [] v.type = "array" /\ v.items = <<>> -> "[]"
      [] v.type = "object" /\ DOMAIN v.members = {} -> "{}"

DataHasError_Present(data) == data.type = "object" /\ "error" \in DOMAIN data.members

\* part_001 line 63: if (data.error)
DataHasError(data) == ~Falsy(OptGet(data, "error"))

\* part_001 line 64
ErrorText(e) == IF TypeOf(e) = "string" THEN e.str ELSE JsonStringify(e)

\* part_001 lines 61-81: what handleSubmit sets when res.json() settles as b
Settled(p, b) ==
    LET failed == ~b.ok \/ Nullish(b.value)
        done == [p EXCEPT !.loading = FALSE, !.pc = "idle", !.sent = "", !.res = Json(Undefined)]
    IN  IF failed THEN [done EXCEPT !.error = "Server error"]
        ELSE IF DataHasError(b.value)
        THEN [done EXCEPT !.error = ErrorText(OptGet(b.value, "error"))]
        ELSE [done EXCEPT !.result = b.value]

\* texts the user types or loads
PageInputs == {"", " \n", ReplyNoBraces, ReplyJson, InitialFormInput}

\* what res.json() of the page does: the bodies the route returns, and bodies
\* of other origin
PageBodies ==
    { BadJson("Unexpected token '<', \"<!DOCTYPE \"... is not valid JSON"),
      Json(Null), Json(Num(0)), Json(Str("")), Json(Arr(<<>>)), Json(Obj(<<>>)),
      Json(Obj([error |-> Str("")])), Json(Obj([error |-> Num(5)])),
      Json(Obj([error |-> Obj(<<>>)])), Json(Obj([error |-> Bool(TRUE)])),
      Json(BadPromptResponse.json), Json(MockResponse.json), Json(MisconfiguredResponse.json),
      Json(ErrorResponse(TimedOutError).json), Json(InterpretResponse(ReplyNoBraces).json),
      Json(InterpretResponse(ReplyJson).json) }

\* part_001 lines 156-197: the input changes and the effect runs
SetFormInput ==
    /\ \E text \in PageInputs \ {page.formInput} :
          page' = Validated([page EXCEPT !.formInput = text])
    /\ UNCHANGED server

\* part_001 lines 45-59: handleSubmit up to the await of fetch()
HandleSubmit ==
    /\ page.pc = "idle"
    /\ IF ~page.isValidJson
       THEN page' = [page EXCEPT !.jsonError = "Fix JSON before submitting"]
       ELSE page' = [page EXCEPT !.loading = TRUE, !.error = "", !.result = Null,
                                 !.pc = "fetch", !.sent = page.formInput]
    /\ UNCHANGED server

\* part_001 lines 56-60: fetch() resolves with a response
PageFetchResponds ==
    /\ page.pc = "fetch"
    /\ \E b \in PageBodies : page' = [page EXCEPT !.pc = "json", !.res = b]
    /\ UNCHANGED server

\* part_001 lines 56-60, 77-81: fetch() rejects
PageFetchFails ==
    /\ page.pc = "fetch"
    /\ page' = Settled(page, BadJson("fetch failed"))
    /\ UNCHANGED server

\* part_001 lines 61-81: res.json() settles
PageJsonSettles ==
    /\ page.pc = "json"
    /\ page' = Settled(page, page.res)
    /\ UNCHANGED server

PageInit ==
    /\ Init
    /\ body = Json(Obj([prompt |-> Str(FormText)]))
    /\ env = [USE_MOCK_AI |-> Str("1"), GEMINI_API_KEY |-> Undefined,
              GOOGLE_GEMINI_API_KEY |-> Undefined]

PageNext ==
    \/ SetFormInput
    \/ HandleSubmit
    \/ PageFetchResponds
    \/ PageFetchFails
    \/ PageJsonSettles

PageSpec == PageInit /\ [][PageNext]_vars



----------------------------------------------------------------------------
(* Vocabulary of the properties *)

Done == pc = "done"

\* the response POST returned (Done)
TheResponse == responses[1]

\* the attempt ended with this HTTP status and a body that was read
IsHttp(o, statuses) == o.kind = "http" /\ o.status \in statuses

\* the attempt ended in a failure the retry policy calls transient
IsTransient(o) == o.kind \in {"abort", "error"} \/ IsHttp(o, {429, 503})

Prompt == OptGet(body.value, "prompt")

ValidPrompt == body.ok /\ Prompt.type = "string" /\ Prompt.str # ""

MockEnabled == env.USE_MOCK_AI \in {Str("1"), Str("true")}

NoCredential ==
    /\ env.GEMINI_API_KEY \in {Undefined, Str("")}
    /\ env.GOOGLE_GEMINI_API_KEY \in {Undefined, Str("")}

----------------------------------------------------------------------------
(* C1 *)

\* C1: a status that is neither 2xx, 429 nor 503 on attempt 0 ends callAi
\* after exactly one outbound call, without a sleep, and POST answers 502
\* "AI API error".
C1_FatalStatusNotRetried ==
    (Len(outcomes) >= 1 /\ outcomes[1].kind = "http"
        /\ ~(outcomes[1].status \in 200..299) /\ outcomes[1].status \notin {429, 503})
    => /\ calls = 1
       /\ nsleeps = 0
       /\ Done
       /\ TheResponse.status = 502
       /\ OptGet(TheResponse.json, "error") = Str("AI API error")

----------------------------------------------------------------------------
(* C2 *)

\* C2: when the first 2xx arrives on attempt k after transient failures
\* only, callAi has made exactly k+1 calls, makes none afterwards, and
\* returns the body of that response unchanged.
C2_FirstSuccessReturns ==
    \A n \in 1..Len(outcomes) :
        (IsHttp(outcomes[n], 200..299) /\ \A i \in 1..(n - 1) : IsTransient(outcomes[i]))
        => /\ calls = n
           /\ Len(outcomes) = n
           /\ attempt = n - 1
           /\ pc = "done"
           /\ nsleeps = n - 1
           /\ result = Returned(res.text.str)

C2_Witness ==
    /\ outcomes = <<Outcome("http", 503), Outcome("http", 503), Outcome("http", 200)>>
    /\ calls = 3
    /\ result = Returned(Envelope)

----------------------------------------------------------------------------
(* C3 *)

\* C3: a request makes at most 4 outbound calls (attempts 0..3) and POST
\* returns at most one response, exactly one once it is done; that response
\* is a success (callAi returned, or the mock answered) or an error, not both.
C3_BoundedAttemptsOneOutcome ==
    /\ calls <= 4
    /\ attempt \in 0..3
    /\ Len(outcomes) <= calls
    /\ Len(responses) <= 1
    /\ Done <=> Len(responses) = 1
    /\ Done => (result.kind = "threw" => TheResponse.status # 200)

C3_Witness ==
    /\ Done
    /\ calls = 4
    /\ Len(responses) = 1
    /\ result.kind = "threw"

----------------------------------------------------------------------------
(* C4 *)

AllRateLimited ==
    /\ Done
    /\ Len(outcomes) = 4
    /\ \A i \in 1..4 : IsHttp(outcomes[i], {429, 503})

\* C4 as claimed: four attempts that each received 429 or 503 make callAi
\* fail with "AI request failed after retries".
C4_ExhaustionIsGeneric ==
    AllRateLimited => result = Threw(Error("Error", "AI request failed after retries"))

\* C4 as amended: four attempts that each received 429 or 503 make callAi
\* fail with "AI API error <status>: <body>" of the fourth response, and
\* callAi never fails with "AI request failed after retries".
C4_ExhaustionIsApiError ==
    /\ AllRateLimited =>
          /\ result.kind = "threw"
          /\ result.error.message =
                "AI API error " \o ToString(outcomes[4].status) \o ": " \o res.text.str
          /\ calls = 4
    /\ result # Threw(Error("Error", "AI request failed after retries"))

C4_Witness ==
    /\ AllRateLimited
    /\ result.kind = "threw"
    /\ result.error.message = "AI API error 503: Please retry in 5.5s."

----------------------------------------------------------------------------
(* C5 *)

OnlyTimeouts == \A i \in 1..Len(outcomes) : outcomes[i].kind = "abort"

\* C5: when every attempt is aborted by the timeout, callAi sleeps after each
\* of the first three attempts and not after the fourth, makes exactly 4
\* calls, throws "AI request timed out", and POST answers 504 with that error.
C5_AllTimeouts ==
    OnlyTimeouts =>
        /\ Len(outcomes) <= 4
        /\ nsleeps = (IF Len(outcomes) = 4 THEN 3 ELSE Len(outcomes))
        /\ pc = "sleep" => Len(outcomes) = attempt + 1 /\ waitMs = <<1000, 2000, 4000>>[attempt + 1]
        /\ Len(outcomes) = 4 =>
              /\ calls = 4
              /\ Done
              /\ result = Threw(Error("Error", "AI request timed out"))
              /\ responses = <<Response(504, Obj([error |-> Str("AI request timed out")]))>>

C5_Witness ==
    /\ Len(outcomes) = 4
    /\ OnlyTimeouts
    /\ Done
    /\ TheResponse.status = 504

----------------------------------------------------------------------------
(* C6 *)

LastOutcome == outcomes[Len(outcomes)]

\* C6: an error callAi throws because of a non-2xx response makes POST
\* answer 502 "AI API error" with the message as details, whatever the
\* status and the body text; POST answers 504 only when the last attempt was
\* aborted by the timeout; any other thrown error gives 500 "Server error".
C6_ErrorClassification ==
    (Done /\ result.kind = "threw") =>
        /\ LastOutcome.kind = "http" =>
              /\ result.error.message =
                    "AI API error " \o ToString(LastOutcome.status) \o ": " \o res.text.str
              /\ TheResponse = Response(502, Obj([error |-> Str("AI API error"),
                                                  details |-> Str(result.error.message)]))
        /\ TheResponse.status = 504 => LastOutcome.kind = "abort"
        /\ LastOutcome.kind = "error" =>
              TheResponse = Response(500, Obj([error |-> Str("Server error")]))

----------------------------------------------------------------------------
(* C7 *)

\* callAi sleeps after a 429 / 503 whose body was read
SleepsAfterRateLimit == pc = "sleep" /\ IsHttp(LastOutcome, {429, 503})

\* the number N of the hint "retry in <N>s" in the body, NaN without a hint
HintSeconds ==
    LET m == MatchRetryHint(res.text.str)
    IN  IF m.found THEN ParseFloat(m.group) ELSE NaN

\* the integer at the start of a non-empty Retry-After header, NaN without one
HeaderSeconds ==
    IF res.retryAfter.type = "string" /\ res.retryAfter.str # ""
    THEN ParseInt(res.retryAfter.str) ELSE NaN

\* C7 as claimed: after a 429 / 503 on a non-final attempt the wait is
\* N * 1000 ms for a body hint "retry in <N>s", else the Retry-After seconds
\* times 1000, else 1000 * 2^attempt plus a jitter in 0..300 ms.
C7_WaitIsHintTimes1000 ==
    SleepsAfterRateLimit =>
        IF ~HintSeconds.nan THEN waitMs * HintSeconds.den = HintSeconds.num * 1000
        ELSE IF ~HeaderSeconds.nan THEN waitMs = HeaderSeconds.num * 1000
        ELSE (waitMs - 1000 * Pow2(attempt)) \in 0..300

\* C7 as amended: the same precedence, the body hint giving N * 1000 ms
\* rounded up to a whole millisecond.
C7_WaitPrecedence ==
    SleepsAfterRateLimit =>
        IF ~HintSeconds.nan
        THEN /\ waitMs * HintSeconds.den >= HintSeconds.num * 1000
             /\ (waitMs - 1) * HintSeconds.den < HintSeconds.num * 1000
        ELSE IF ~HeaderSeconds.nan THEN waitMs = HeaderSeconds.num * 1000
        ELSE (waitMs - 1000 * Pow2(attempt)) \in 0..300

C7_Witness ==
    /\ SleepsAfterRateLimit
    /\ res.retryAfter = Str("2")
    /\ res.text = Str("Please retry in 5.5s.")
    /\ waitMs = 5500

----------------------------------------------------------------------------
(* C8 *)

\* C8: a request body whose prompt is missing or not a string gets the 400
\* "Missing or invalid 'prompt' in request body" and no outbound call is
\* made, whatever the mock flag and the credentials are.
C8_BadPromptIs400 ==
    (body.ok /\ Prompt.type # "string") =>
        /\ calls = 0
        /\ pc \in {"json", "done"}
        /\ Done => responses =
              <<Response(400, Obj([error |-> Str("Missing or invalid 'prompt' in request body")]))>>

C8_Witness ==
    /\ Done
    /\ Prompt = Num(5)
    /\ MockEnabled
    /\ ~NoCredential
    /\ TheResponse.status = 400

----------------------------------------------------------------------------
(* C9 *)

CannedResult ==
    Obj([validationRules |-> Arr(<<Str("email: required, must be a valid email")>>),
         accessibility |-> Arr(<<Str("Ensure all form fields have associated labels")>>),
         uxSuggestions |-> Arr(<<Str("Show inline validation messages as user types")>>),
         edgeCases |-> Arr(<<Str("Empty optional fields with default values")>>)])

\* C9 as claimed: with the mock flag enabled POST answers 200 with the canned
\* result whatever the content of the prompt, and makes no outbound call.
C9_MockForAnyPrompt ==
    (MockEnabled /\ body.ok /\ Prompt.type = "string") =>
        /\ calls = 0
        /\ Done => responses = <<Response(200, CannedResult)>>

\* C9 as amended: with the mock flag enabled and a non-empty string prompt
\* POST answers 200 with the canned result and makes no outbound call,
\* with or without a credential.
C9_MockForValidPrompt ==
    (MockEnabled /\ ValidPrompt) =>
        /\ calls = 0
        /\ pc \in {"json", "done"}
        /\ Done => responses = <<Response(200, CannedResult)>>

C9_Witness ==
    /\ Done
    /\ env.USE_MOCK_AI = Str("true")
    /\ NoCredential
    /\ Prompt = Str("0")
    /\ TheResponse = Response(200, CannedResult)

----------------------------------------------------------------------------
(* C10 *)

\* C10: with mock mode off, a non-empty string prompt and no credential
\* POST answers 500 with exactly { error: "Server misconfiguration" } and
\* makes no outbound call.
C10_NoCredentialIs500 ==
    (~MockEnabled /\ ValidPrompt /\ NoCredential) =>
        /\ calls = 0
        /\ pc \in {"json", "done"}
        /\ Done => responses = <<Response(500, Obj([error |-> Str("Server misconfiguration")]))>>

C10_Witness ==
    /\ Done
    /\ env.USE_MOCK_AI = Str("0")
    /\ env.GEMINI_API_KEY = Str("")
    /\ env.GOOGLE_GEMINI_API_KEY = Undefined
    /\ ValidPrompt
    /\ TheResponse.status = 500

----------------------------------------------------------------------------
(* C11 *)

\* C11: for every text callAi returns, POST answers either 200 with the
\* object parsed from the reply, or 500 "Invalid AI response format" with the
\* reply under raw; never the generic "Server error".
C11_ParsedOrInvalidFormat ==
    (Done /\ result.kind = "returned") =>
        \/ TheResponse.status = 200 /\ TheResponse.json.type = "object"
        \/ /\ TheResponse.status = 500
           /\ OptGet(TheResponse.json, "error") = Str("Invalid AI response format")
           /\ DOMAIN TheResponse.json.members = {"error", "raw"}

(* C12 *)

\* C12: an attempt in flight (headers or body not yet fully received) never
\* lasts longer than DEFAULT_TIMEOUT: at the deadline it is aborted.
C12_AttemptBoundedByTimeout ==
    pc \in {"fetch", "text"} => elapsed <= DEFAULT_TIMEOUT

(* C13 *)

\* The timers of the event loop fire and time passes: a due abort timer runs
\* its callback, a backoff sleep ends, the request body read settles. Nothing
\* is assumed of the external endpoint.
FairSpec ==
    /\ Init
    /\ [][Next]_vars
    /\ WF_vars(Tick)
    /\ WF_vars(FetchAborted)
    /\ WF_vars(SleepEnds)
    /\ WF_vars(JsonSettles)

\* C13: under fairness of the timers every POST request eventually gets its
\* response, whatever the endpoint does.
C13_EventuallyResponds == <>(pc = "done")

(* C16 *)

C16_Step ==
    /\ (Len(outcomes') = Len(outcomes) + 1 /\ LastOutcome'.kind = "error") =>
           IF attempt < 3
           THEN /\ pc' = "sleep"
                /\ nsleeps' = nsleeps + 1
                /\ waitMs' - 1000 * Pow2(attempt) \in 0..300
           ELSE /\ pc' = "done"
                /\ nsleeps' = nsleeps
                /\ result'.kind = "threw"
                /\ result'.error \in NetworkErrors
    /\ (Len(outcomes') = Len(outcomes) + 1 /\ LastOutcome'.kind = "abort" /\ attempt < 3) =>
           /\ pc' = "sleep"
           /\ nsleeps' = nsleeps + 1
           /\ waitMs' = <<1000, 2000, 4000>>[attempt + 1]
    /\ pc = "sleep" /\ pc' # "sleep" =>
           /\ pc' = "fetch"
           /\ attempt' = attempt + 1
           /\ calls' = calls + 1

\* C16: a network failure on attempt a < 3 is followed by a sleep of
\* 1000 * 2^a ms plus a jitter in 0..300 and then the next attempt, a timeout
\* on attempt a < 3 by a sleep of exactly 1000 * 2^a ms; a network failure on
\* attempt 3 is followed by no sleep and callAi throws the underlying error.
C16_FailureBackoff == [][C16_Step]_vars

\* four network failures: three jittered sleeps, then the error is thrown
C16_Witness ==
    /\ Done
    /\ Len(outcomes) = 4
    /\ \A i \in 1..4 : outcomes[i].kind = "error"
    /\ nsleeps = 3
    /\ result.kind = "threw"
    /\ result.error \in NetworkErrors

(* C18 *)

\* C18: the wait handed to sleep before a retry is never negative.
C18_WaitNeverNegative ==
    pc = "sleep" => waitMs >= 0

(* C15 *)

\* a failure that is neither a rejected prompt, a missing credential, a
\* timeout, an upstream HTTP error nor an unparsable reply: req.json()
\* rejected, callAi threw a network error, or the reply is not a string
Unclassified ==
    \/ ~body.ok
    \/ result.kind = "threw" /\ result.error \in NetworkErrors
    \/ result.kind = "returned" /\ ParsedReply(result.text).type # "string"

\* C15: POST returns exactly one response, its status is one of 200, 400,
\* 500, 502, 504, and a failure that is not otherwise classified is answered
\* with 500 "Server error".
C15_NeverEscapes ==
    Done =>
        /\ Len(responses) = 1
        /\ TheResponse.status \in {200, 400, 500, 502, 504}
        /\ Unclassified => TheResponse = Response(500, Obj([error |-> Str("Server error")]))

(* C17 *)

\* v has an array under key k with a first element
HasFirst(v, k) ==
    /\ v.type = "object"
    /\ k \in DOMAIN v.members
    /\ v.members[k].type = "array"
    /\ Len(v.members[k].items) >= 1

\* v has an object under key k
HasObject(v, k) ==
    /\ v.type = "object"
    /\ k \in DOMAIN v.members
    /\ v.members[k].type = "object"

\* candidates[0].content.parts[0].text is present in the envelope v
PathPresent(v) ==
    /\ HasFirst(v, "candidates")
    /\ HasObject(v.members["candidates"].items[1], "content")
    /\ HasFirst(v.members["candidates"].items[1].members["content"], "parts")
    /\ LET part == v.members["candidates"].items[1].members["content"].members["parts"].items[1]
       IN  /\ part.type = "object"
           /\ "text" \in DOMAIN part.members
           /\ part.members["text"].type \notin {"null", "undefined"}

PathText(v) ==
    v.members["candidates"].items[1].members["content"].members["parts"].items[1].members["text"]

\* the reply the claim expects for the text callAi returned
ExpectedReply(text) ==
    IF JsonParse(text).ok /\ PathPresent(JsonParse(text).value)
    THEN PathText(JsonParse(text).value)
    ELSE Str(text)

\* positions i, j of the first "{" and the last "}" of r, with i before j
Braces(r) ==
    {<<i, j>> \in (1..Len(r)) \X (1..Len(r)) :
        /\ CharAt(r, i) = "{" /\ \A k \in 1..(i - 1) : CharAt(r, k) # "{"
        /\ CharAt(r, j) = "}" /\ \A k \in (j + 1)..Len(r) : CharAt(r, k) # "}"
        /\ i < j}

\* C17: the reply is the envelope's candidates[0].content.parts[0].text when
\* the text callAi returned parses and has that path, else the text itself;
\* POST answers 200 with exactly the value parsed from the first "{" to the
\* last "}" of the reply, whatever its keys, and 500 "Invalid AI response
\* format" with the reply when there is no such substring or it does not parse.
C17_GreedyExtraction ==
    (Done /\ result.kind = "returned" /\ ExpectedReply(result.text).type = "string") =>
        LET reply == ExpectedReply(result.text)
        IN  IF \E b \in Braces(reply.str) : JsonParse(SubSeq(reply.str, b[1], b[2])).ok
            THEN \A b \in Braces(reply.str) :
                    TheResponse = Response(200, JsonParse(SubSeq(reply.str, b[1], b[2])).value)
            ELSE TheResponse = Response(500, Obj([error |-> Str("Invalid AI response format"),
                                                  raw |-> reply]))

\* an envelope whose text wraps the object in prose: the object is extracted
C17_Witness ==
    /\ Done
    /\ result = Returned(EnvelopeProse)
    /\ TheResponse = Response(200, Obj([validationRules |-> Arr(<<Str("a")>>)]))

(* C14 *)

C14_Step ==
    \* a step changes the locals of the running request only
    /\ \A r \in DOMAIN others \cup {cur} : LocalOf(r)' # LocalOf(r) => r = cur /\ cur' = cur
    /\ env' = env
    \* it sets and clears only the timer of the running request's attempt
    /\ timers' \ timers \subseteq {Timer(cur, attempt')}
    /\ timers \ timers' \subseteq {Timer(cur, attempt)}
    \* an attempt is aborted only by its own timer, DEFAULT_TIMEOUT after its start
    /\ (cur' = cur /\ Len(outcomes') = Len(outcomes) + 1 /\ LastOutcome'.kind = "abort") =>
           /\ Timer(cur, attempt) \in timers
           /\ elapsed >= DEFAULT_TIMEOUT
    \* a pending timer is the timer of the attempt its request has in flight
    /\ \A t \in timers' : LocalOf(t.req)'.pc = "fetch" /\ LocalOf(t.req)'.attempt = t.attempt

\* C14: with several requests interleaved a step of one request changes
\* neither the locals (attempt counter, outcomes, result) of another request
\* nor its timer; a timer aborts only the attempt that set it, and no timer of
\* an earlier attempt is pending when the next attempt of a request starts.
C14_Isolation == [][C14_Step]_vars

\* request 1 was aborted by its timer and is in its second attempt while the
\* first attempt of request 2 is still in flight with its timer pending
C14_Witness ==
    /\ DOMAIN others \cup {cur} = Reqs
    /\ timers = {Timer(1, 1), Timer(2, 0)}
    /\ LocalOf(1).outcomes = <<Outcome("abort", 0)>>
    /\ LocalOf(2).elapsed > 0

(* C19 *)

C19_Step ==
    \* no request when the input is not valid JSON
    /\ (page.pc = "idle" /\ ~page.isValidJson) => page'.pc = "idle" /\ page'.loading = page.loading
    \* before the request: loading, error and result cleared
    /\ (page.pc = "idle" /\ page'.pc # "idle") =>
           /\ page.isValidJson
           /\ page'.pc = "fetch"
           /\ page'.sent = page.formInput
    /\ page'.pc # "idle" => page'.loading /\ page'.error = "" /\ page'.result = Null
    \* when it finishes
    /\ (page.pc # "idle" /\ page'.pc = "idle") =>
           /\ ~page'.loading
           /\ (page'.error # "") # (page'.result # Null)

\* C19: handleSubmit issues no request when the input is not valid JSON;
\* otherwise it sets loading and clears error and result before the request,
\* and when it finishes loading is false and exactly one of error non-empty,
\* result non-null holds.
C19_SubmitOutcome == [][C19_Step]_vars

\* a submit that finished with the error body of the route
C19_Witness ==
    /\ page.pc = "idle"
    /\ ~page.loading
    /\ page.error = "Server misconfiguration"
    /\ page.result = Null

====
